---- MODULE Spec2Model ----
(***************************************************************************)
(* Model of `diffs` (src/main.rs): for every local git branch, list the    *)
(* Differential revisions its commits cite and the status `arc list`       *)
(* reports for each.  Text is modelled as a sequence of one-character      *)
(* strings; Option<T> is modelled as a sequence of length 0 (None) or 1    *)
(* (Some).                                                                 *)
(***************************************************************************)
EXTENDS Integers, Sequences, FiniteSets, TLC

(* ------------------------------ bounds -------------------------------- *)
MaxPathLen == 3
MaxBodyLines == 3
MaxRows == 3
MaxBranches == 2

(* --------------------------- text primitives --------------------------- *)
None == <<>>
Some(x) == <<x>>

NL == "\n"
CR == "\r"
TAB == "\t"
NUL == "NUL"
InvalidByte == "0xFF"

AsciiDigit == {"0","1","2","3","4","5","6","7","8","9"}
Upper == {"A","B","C","D","E","F","G","H","I","J","K","L","M","N","O","P","Q","R","S","T","U","V","W","X","Y","Z"}
Lower == {"a","b","c","d","e","f","g","h","i","j","k","l","m","n","o","p","q","r","s","t","u","v","w","x","y","z"}
AsciiWhitespace == {" ", TAB, NL, CR}

Range(s) == {s[i] : i \in 1..Len(s)}

Drop(s, n) == SubSeq(s, n + 1, Len(s))

Take(s, n) == SubSeq(s, 1, n)

starts_with(s, p) == Len(p) <= Len(s) /\ Take(s, Len(p)) = p

strip_prefix(s, p) == IF starts_with(s, p) THEN Some(Drop(s, Len(p))) ELSE None

RECURSIVE trim_start(_)
trim_start(s) ==
    IF s # <<>> /\ Head(s) \in AsciiWhitespace THEN trim_start(Tail(s)) ELSE s

RECURSIVE trim_end(_)
trim_end(s) ==
    IF s # <<>> /\ s[Len(s)] \in AsciiWhitespace THEN trim_end(Take(s, Len(s) - 1)) ELSE s

trim(s) == trim_end(trim_start(s))

trim_ascii_whitespace(s) == trim_end(trim_start(s))

from_utf8(s) == IF InvalidByte \in Range(s) THEN None ELSE Some(s)

RECURSIVE split(_, _)
split(s, c) ==
    IF c \notin Range(s) THEN <<s>>
    ELSE LET i == CHOOSE j \in 1..Len(s) : s[j] = c /\ \A h \in 1..(j - 1) : s[h] # c
         IN <<Take(s, i - 1)>> \o split(Drop(s, i), c)

strip_cr(l) == IF l # <<>> /\ l[Len(l)] = CR THEN Take(l, Len(l) - 1) ELSE l

str_lines(s) ==
    LET parts == split(s, NL)
        kept == IF parts[Len(parts)] = <<>> THEN Take(parts, Len(parts) - 1) ELSE parts
    IN [i \in 1..Len(kept) |-> strip_cr(kept[i])]

rev(s) == [i \in 1..Len(s) |-> s[Len(s) + 1 - i]]

(* ------------------------------ Url::parse ----------------------------- *)
Https == <<"h","t","t","p","s",":">>

RECURSIVE skip_slashes(_)
skip_slashes(s) == IF s # <<>> /\ Head(s) = "/" THEN skip_slashes(Tail(s)) ELSE s

RECURSIVE take_until(_, _)
take_until(s, stops) ==
    IF s = <<>> \/ Head(s) \in stops THEN <<>> ELSE <<Head(s)>> \o take_until(Tail(s), stops)

RECURSIVE percent_encode(_)
percent_encode(s) ==
    IF s = <<>> THEN <<>>
    ELSE (IF Head(s) = " " THEN <<"%","2","0">> ELSE <<Head(s)>>) \o percent_encode(Tail(s))

\* The url crate on the inputs the model draws: an input with no scheme is
\* a relative URL without a base (Err); after the special scheme "https:"
\* any run of slashes is skipped, the host runs to the next '/', '?' or
\* '#', must be non-empty and free of spaces, and the path runs to the next
\* '?' or '#', is "/" when empty, and has its spaces percent-encoded.
Url_parse(input) ==
    LET s == trim(input)
    IN IF ~starts_with(s, Https) THEN None
       ELSE LET rest == skip_slashes(Drop(s, Len(Https)))
                host == take_until(rest, {"/", "?", "#"})
                raw == take_until(Drop(rest, Len(host)), {"?", "#"})
            IN IF host = <<>> \/ " " \in Range(host) THEN None
               ELSE Some([path |-> IF raw = <<>> THEN <<"/">> ELSE percent_encode(raw)])

(* ----------------------- get_differential_revision --------------------- *)
AnnotationPrefix == <<"D","i","f","f","e","r","e","n","t","i","a","l"," ","R","e","v","i","s","i","o","n",":">>

get_differential_revision(line) ==
    LET url_str == strip_prefix(line, AnnotationPrefix)
    IN IF url_str = None THEN None
       ELSE LET url == Url_parse(trim(url_str[1]))
            IN IF url = None THEN None
               ELSE LET path == url[1].path
                        diff_number == strip_prefix(path, <<"/","D">>)
                    IN IF diff_number = None THEN None
                       ELSE IF \A i \in 1..Len(diff_number[1]) : diff_number[1][i] \in AsciiDigit
                            THEN Some(Drop(path, 1))
                            ELSE None

\* filter_map(|s| get_differential_revision(s)): the Some results, in order.
RECURSIVE filter_map(_)
filter_map(s) ==
    IF s = <<>> THEN <<>> ELSE get_differential_revision(Head(s)) \o filter_map(Tail(s))

(* ------------------------------- errors -------------------------------- *)
NoError == [kind |-> "none", line |-> <<>>]

Error(kind, line) == [kind |-> kind, line |-> line]

(* ------------------------------- arc_list ------------------------------ *)
\* A process result is [spawned, success, stdout]: whether the command could
\* be started, whether it exited with status zero, and its captured stdout.
arc_list(output) ==
    IF ~output.spawned THEN [ok |-> FALSE, err |-> Error("IoError", <<>>), lines |-> <<>>]
    ELSE IF ~output.success THEN [ok |-> FALSE, err |-> Error("ReviewToolError", <<>>), lines |-> <<>>]
    ELSE LET text == from_utf8(trim_ascii_whitespace(output.stdout))
         IN IF text = None THEN [ok |-> FALSE, err |-> Error("Utf8Error", <<>>), lines |-> <<>>]
            ELSE [ok |-> TRUE, err |-> NoError, lines |-> str_lines(text[1])]

(* ----------------------------- get_arc_info ---------------------------- *)
Sentinel == <<"Y","o","u"," ","h","a","v","e"," ","n","o"," ","o","p","e","n"," ","D","i","f","f","e","r","e","n","t","i","a","l"," ","r","e","v","i","s","i","o","n","s",".">>

WordChar == Upper \cup Lower \cup AsciiDigit \cup {"_"}

EmptyMap == [key \in {} |-> key]

insert_keep_first(m, key, value) ==
    [x \in (DOMAIN m) \cup {key} |-> IF x \in DOMAIN m THEN m[x] ELSE value]

insert(m, key, value) ==
    [x \in (DOMAIN m) \cup {key} |-> IF x = key THEN value ELSE m[x]]

\* ^(?P<exists>\* )?(?P<status>[\w ]+) (?P<diff>D\d+): (?P<summary>.*)$
\* A match is <<e, i, j>>: the marker takes e characters (0 or 2), the
\* status ends at i and the ticket identifier ends at j.
regex_matches(line) ==
    LET n == Len(line)
        markers == {0} \cup (IF n >= 2 /\ line[1] = "*" /\ line[2] = " " THEN {2} ELSE {})
        status_ends(e) ==
            {i \in (e + 1)..(n - 4) :
                /\ line[i + 1] = " "
                /\ line[i + 2] = "D"
                /\ \A h \in (e + 1)..i : line[h] \in WordChar \cup {" "}}
        diff_ends(i) ==
            {j \in (i + 3)..(n - 2) :
                /\ line[j + 1] = ":"
                /\ line[j + 2] = " "
                /\ \A h \in (i + 3)..j : line[h] \in AsciiDigit
                /\ \A h \in (j + 3)..n : line[h] # NL}
    IN UNION {UNION {{<<e, i, j>> : j \in diff_ends(i)} : i \in status_ends(e)} : e \in markers}

\* Backtracking order: the optional group is tried present first, then the
\* greedy status longest first, then the greedy digits longest first.
prefers(a, b) ==
    \/ a[1] > b[1]
    \/ a[1] = b[1] /\ a[2] > b[2]
    \/ a[1] = b[1] /\ a[2] = b[2] /\ a[3] >= b[3]

regex_captures(line) ==
    LET ms == regex_matches(line)
    IN IF ms = {} THEN None
       ELSE LET m == CHOOSE a \in ms : \A b \in ms : prefers(a, b)
            IN Some([exists |-> IF m[1] = 2 THEN Some(SubSeq(line, 1, 2)) ELSE None,
                     status |-> SubSeq(line, m[1] + 1, m[2]),
                     diff |-> SubSeq(line, m[2] + 2, m[3]),
                     summary |-> SubSeq(line, m[3] + 3, Len(line))])

parse_row_untrimmed(line) ==
    LET caps == regex_captures(line)
    IN IF caps = None THEN None
       ELSE Some([diff |-> caps[1].diff,
                  info |-> [exists |-> caps[1].exists # None,
                            status |-> caps[1].status,
                            summary |-> trim(caps[1].summary)]])

parse_row(line) ==
    LET caps == regex_captures(line)
    IN IF caps = None THEN None
       ELSE Some([diff |-> caps[1].diff,
                  info |-> [exists |-> caps[1].exists # None,
                            status |-> trim(caps[1].status),
                            summary |-> trim(caps[1].summary)]])

RECURSIVE collect_rows_skipping(_, _)
collect_rows_skipping(lines, m) ==
    IF lines = <<>> THEN [ok |-> TRUE, err |-> NoError, map |-> m]
    ELSE LET row == parse_row(Head(lines))
         IN IF row = None
            THEN collect_rows_skipping(Tail(lines), m)
            ELSE collect_rows_skipping(Tail(lines), insert(m, row[1].diff, row[1].info))

RECURSIVE collect_rows_skip_empty(_, _)
collect_rows_skip_empty(lines, m) ==
    IF lines = <<>> THEN [ok |-> TRUE, err |-> NoError, map |-> m]
    ELSE IF Head(lines) = <<>> THEN collect_rows_skip_empty(Tail(lines), m)
    ELSE LET row == parse_row(Head(lines))
         IN IF row = None
            THEN [ok |-> FALSE, err |-> Error("TableParseError", Head(lines)), map |-> EmptyMap]
            ELSE collect_rows_skip_empty(Tail(lines), insert(m, row[1].diff, row[1].info))

RECURSIVE collect_rows(_, _)
collect_rows(lines, m) ==
    IF lines = <<>> THEN [ok |-> TRUE, err |-> NoError, map |-> m]
    ELSE LET row == parse_row(Head(lines))
         IN IF row = None
            THEN [ok |-> FALSE, err |-> Error("TableParseError", Head(lines)), map |-> EmptyMap]
            ELSE collect_rows(Tail(lines), insert(m, row[1].diff, row[1].info))

get_arc_info_no_sentinel(output) ==
    LET listed == arc_list(output)
    IN IF ~listed.ok THEN [ok |-> FALSE, err |-> listed.err, map |-> EmptyMap, lines |-> <<>>]
       ELSE LET r == collect_rows(listed.lines, EmptyMap)
            IN [ok |-> r.ok, err |-> r.err, map |-> r.map, lines |-> listed.lines]

get_arc_info(output) ==
    LET listed == arc_list(output)
    IN IF ~listed.ok THEN [ok |-> FALSE, err |-> listed.err, map |-> EmptyMap, lines |-> <<>>]
       ELSE IF listed.lines = <<Sentinel>>
            THEN [ok |-> TRUE, err |-> NoError, map |-> EmptyMap, lines |-> listed.lines]
            ELSE LET r == collect_rows(listed.lines, EmptyMap)
                 IN [ok |-> r.ok, err |-> r.err, map |-> r.map, lines |-> listed.lines]

(* ----------------------------- get_branches ---------------------------- *)
RECURSIVE collect_branches(_)
collect_branches(recs) ==
    IF recs = <<>> THEN [ok |-> TRUE, err |-> NoError, branches |-> <<>>]
    ELSE IF Head(recs) = <<>> THEN collect_branches(Tail(recs))
    ELSE LET parts == split(Head(recs), NUL)
         IN IF Len(parts) # 2
            THEN [ok |-> FALSE, err |-> Error("RepositoryError", Head(recs)), branches |-> <<>>]
            ELSE IF from_utf8(parts[1]) = None \/ from_utf8(parts[2]) = None
            THEN [ok |-> FALSE, err |-> Error("Utf8Error", Head(recs)), branches |-> <<>>]
            ELSE LET rest == collect_branches(Tail(recs))
                     info == [branch |-> parts[1],
                              upstream |-> IF parts[2] = <<>> THEN None ELSE Some(parts[2])]
                 IN IF rest.ok
                    THEN [ok |-> TRUE, err |-> NoError, branches |-> <<info>> \o rest.branches]
                    ELSE rest

get_branches(output) ==
    IF ~output.success THEN [ok |-> FALSE, err |-> Error("RepositoryError", <<>>), branches |-> <<>>]
    ELSE collect_branches(split(output.stdout, NL))

(* --------------------------- get_branch_diffs -------------------------- *)
get_merge_base(output) ==
    IF ~output.success THEN [ok |-> FALSE, err |-> Error("RepositoryError", <<>>), base |-> <<>>]
    ELSE LET text == from_utf8(trim_ascii_whitespace(output.stdout))
         IN IF text = None THEN [ok |-> FALSE, err |-> Error("Utf8Error", <<>>), base |-> <<>>]
            ELSE [ok |-> TRUE, err |-> NoError, base |-> text[1]]

get_commit_bodies(output) ==
    IF ~output.success THEN [ok |-> FALSE, err |-> Error("RepositoryError", <<>>), lines |-> <<>>]
    ELSE LET text == from_utf8(output.stdout)
         IN IF text = None THEN [ok |-> FALSE, err |-> Error("Utf8Error", <<>>), lines |-> <<>>]
            ELSE [ok |-> TRUE, err |-> NoError, lines |-> str_lines(text[1])]

collect_diffs_unreversed(lines) == filter_map(lines)

RECURSIVE dedup(_)
dedup(s) ==
    IF s = <<>> THEN <<>>
    ELSE LET front == dedup(Take(s, Len(s) - 1))
         IN IF s[Len(s)] \in Range(front) THEN front ELSE Append(front, s[Len(s)])

collect_diffs_dedup(lines) == dedup(filter_map(rev(lines)))

collect_diffs(lines) == filter_map(rev(lines))

get_branch_diffs(base_output, log_output) ==
    LET merge_base == get_merge_base(base_output)
    IN IF ~merge_base.ok
       THEN [ok |-> FALSE, err |-> merge_base.err, bodies |-> <<>>, diffs |-> <<>>]
       ELSE LET got == get_commit_bodies(log_output)
            IN IF ~got.ok
               THEN [ok |-> FALSE, err |-> got.err, bodies |-> <<>>, diffs |-> <<>>]
               ELSE [ok |-> TRUE, err |-> NoError, bodies |-> got.lines,
                     diffs |-> collect_diffs(got.lines)]

(* ------------------------------- printing ------------------------------ *)
coloured_status(status) ==
    CASE status = <<"C","l","o","s","e","d">> -> "cyan"
      [] status = <<"N","e","e","d","s"," ","R","e","v","i","e","w">> -> "magenta"
      [] status = <<"N","e","e","d","s"," ","R","e","v","i","s","i","o","n">> -> "red"
      [] status = <<"C","h","a","n","g","e","s"," ","P","l","a","n","n","e","d">> -> "red"
      [] status = <<"A","c","c","e","p","t","e","d">> -> "green"
      [] status = <<"N","o"," ","R","e","v","i","s","i","o","n">> -> "blue"
      [] status = <<"A","b","a","n","d","o","n","e","d">> -> "dimmed"
      [] OTHER -> "normal"

\* What print! writes, one token per call: the padded branch name, a ticket
\* identifier, a parenthesised status, or the newline of println!.
Token(t, text, style, width) == [t |-> t, text |-> text, style |-> style, width |-> width]

RECURSIVE print_diffs_always_status(_, _)
print_diffs_always_status(ds, info) ==
    IF ds = <<>> THEN <<>>
    ELSE <<Token("diff", Head(ds), "bold", 0)>>
         \o (IF Head(ds) \in DOMAIN info
             THEN <<Token("status", info[Head(ds)].status, coloured_status(info[Head(ds)].status), 0)>>
             ELSE <<Token("status", <<>>, "normal", 0)>>)
         \o print_diffs_always_status(Tail(ds), info)

RECURSIVE print_diffs(_, _)
print_diffs(ds, info) ==
    IF ds = <<>> THEN <<>>
    ELSE <<Token("diff", Head(ds), "bold", 0)>>
         \o (IF Head(ds) \in DOMAIN info
             THEN <<Token("status", info[Head(ds)].status, coloured_status(info[Head(ds)].status), 0)>>
             ELSE <<>>)
         \o print_diffs(Tail(ds), info)

RECURSIVE max_len(_)
max_len(bs) ==
    IF bs = <<>> THEN 0
    ELSE LET m == max_len(Tail(bs))
         IN IF Len(Head(bs).branch) > m THEN Len(Head(bs).branch) ELSE m

main_loop_body_name_first(printed, branch, width, resolved, info) ==
    IF ~resolved.ok
    THEN [ok |-> FALSE, out |-> printed \o <<Token("name", branch, "normal", width + 2)>>]
    ELSE [ok |-> TRUE,
          out |-> printed
                  \o <<Token("name", branch, IF resolved.diffs = <<>> THEN "normal" ELSE "bold", width + 2)>>
                  \o print_diffs(resolved.diffs, info)
                  \o <<Token("newline", <<>>, "normal", 0)>>]

\* One iteration of the loop of main: the `?` on get_branch_diffs returns
\* before anything is printed for the branch.
main_loop_body(printed, branch, width, resolved, info) ==
    IF ~resolved.ok THEN [ok |-> FALSE, out |-> printed]
    ELSE [ok |-> TRUE,
          out |-> printed
                  \o <<Token("name", branch, IF resolved.diffs = <<>> THEN "normal" ELSE "bold", width + 2)>>
                  \o print_diffs(resolved.diffs, info)
                  \o <<Token("newline", <<>>, "normal", 0)>>]

(* -------------------------------- state -------------------------------- *)
VARIABLES pc, failed_at, err, arc_output, lines, arc_info, branches,
          max_branch_len, k, bodies, diffs, out

vars == <<pc, failed_at, err, arc_output, lines, arc_info, branches,
          max_branch_len, k, bodies, diffs, out>>

Ran(stdout) == [spawned |-> TRUE, success |-> TRUE, stdout |-> stdout]
ExitNonZero == [spawned |-> TRUE, success |-> FALSE, stdout |-> <<>>]
SpawnFailed == [spawned |-> FALSE, success |-> FALSE, stdout |-> <<>>]

Init ==
    /\ pc = "get_arc_info"
    /\ failed_at = "none"
    /\ err = NoError
    /\ arc_output = Ran(<<>>)
    /\ lines = <<>>
    /\ arc_info = EmptyMap
    /\ branches = <<>>
    /\ max_branch_len = 0
    /\ k = 1
    /\ bodies = <<>>
    /\ diffs = <<>>
    /\ out = <<>>

\* main, line 23: let arc_info = get_arc_info(&working_dir)?;
GetArcInfo(outputs) ==
    /\ pc = "get_arc_info"
    /\ \E o \in outputs :
         \E r \in {get_arc_info(o)} :
            /\ arc_output' = o
            /\ lines' = r.lines
            /\ arc_info' = r.map
            /\ err' = r.err
            /\ pc' = IF r.ok THEN "get_branches" ELSE "failed"
            /\ failed_at' = IF r.ok THEN failed_at ELSE "get_arc_info"
    /\ UNCHANGED <<branches, max_branch_len, k, bodies, diffs, out>>

\* main, lines 25-27: let branches = get_branches(&working_dir)?;
GetBranches(outputs) ==
    /\ pc = "get_branches"
    /\ \E o \in outputs :
         \E r \in {get_branches(o)} :
            /\ branches' = r.branches
            /\ max_branch_len' = max_len(r.branches)
            /\ err' = r.err
            /\ pc' = IF r.ok THEN "loop" ELSE "failed"
            /\ failed_at' = IF r.ok THEN failed_at ELSE "get_branches"
    /\ UNCHANGED <<arc_output, lines, arc_info, k, bodies, diffs, out>>

\* main, lines 29-46: one iteration of `for branch in branches`.
ResolveBranch(base_outputs, log_outputs) ==
    /\ pc = "loop"
    /\ k <= Len(branches)
    /\ \E b \in base_outputs, l \in log_outputs :
         \E resolved \in {get_branch_diffs(b, l)} :
         \E step \in {main_loop_body(out, branches[k].branch, max_branch_len, resolved, arc_info)} :
            /\ bodies' = resolved.bodies
            /\ diffs' = resolved.diffs
            /\ out' = step.out
            /\ err' = resolved.err
            /\ pc' = IF step.ok THEN "loop" ELSE "failed"
            /\ failed_at' = IF step.ok THEN failed_at ELSE "get_branch_diffs"
            /\ k' = IF step.ok THEN k + 1 ELSE k
    /\ UNCHANGED <<arc_output, lines, arc_info, branches, max_branch_len>>

\* main, line 47: Ok(())
Finish ==
    /\ pc = "loop"
    /\ k > Len(branches)
    /\ pc' = "done"
    /\ UNCHANGED <<failed_at, err, arc_output, lines, arc_info, branches,
                   max_branch_len, k, bodies, diffs, out>>

(* -------------------------------- inputs ------------------------------- *)
SeqsUpTo(S, n) == UNION {[1..m -> S] : m \in 0..n}

RECURSIVE join_lines(_, _)
join_lines(ls, eol) ==
    IF ls = <<>> THEN <<>> ELSE Head(ls) \o eol \o join_lines(Tail(ls), eol)

RowNeedsReview42 == <<"*"," ","N","e","e","d","s"," ","R","e","v","i","e","w"," ","D","4","2",":"," ","F","i","x"," ","b","u","g">>
RowClosed7 == <<"C","l","o","s","e","d"," ","D","7",":"," ","O","l","d"," ","w","o","r","k">>
RowAccepted42 == <<"A","c","c","e","p","t","e","d"," "," ","D","4","2",":"," ","x">>
RowGarbage == <<"C","l","o","s","e","d"," ","7",":"," ","x">>

LineD7 == AnnotationPrefix \o <<" ","h","t","t","p","s",":","/","/","h","/","D","7">>
LineD42 == AnnotationPrefix \o <<" ","h","t","t","p","s",":","/","/","h","/","D","4","2">>
LineD == AnnotationPrefix \o <<" ","h","t","t","p","s",":","/","/","h","/","D">>
LinePlain == <<"F","i","x"," ","b","u","g">>

ArcMainOutputs ==
    {ExitNonZero,
     Ran(Sentinel \o <<NL>>),
     Ran(join_lines(<<RowNeedsReview42, RowClosed7>>, <<NL>>)),
     Ran(join_lines(<<RowNeedsReview42, RowGarbage>>, <<NL>>))}

BranchRecords ==
    {<<"m", NUL>>, <<"f","x", NUL, "u">>, <<"m">>, <<InvalidByte, NUL>>, <<>>}

BranchOutputs ==
    {ExitNonZero} \cup {Ran(join_lines(rs, <<NL>>)) : rs \in SeqsUpTo(BranchRecords, MaxBranches)}

BaseOutputs == {ExitNonZero, Ran(<<"a","1","f",NL>>)}

MainBodies ==
    {<<>>, <<LineD7>>, <<LineD42, LinePlain, LineD7>>, <<LineD>>, <<LineD7, LinePlain, LineD7>>}

MainLogOutputs ==
    {ExitNonZero, Ran(<<InvalidByte, NL>>)} \cup {Ran(join_lines(b, <<NL>>)) : b \in MainBodies}

Next ==
    \/ GetArcInfo(ArcMainOutputs)
    \/ GetBranches(BranchOutputs)
    \/ ResolveBranch(BaseOutputs, MainLogOutputs)
    \/ Finish

Spec == Init /\ [][Next]_vars

(* --------------------- the review listing, in depth -------------------- *)
Markers == {<<>>, <<"*"," ">>, <<"*">>}
Labels ==
    {<<"C","l","o","s","e","d">>,
     <<"N","e","e","d","s"," ","R","e","v","i","e","w">>,
     <<"N","o"," ","D","1">>,
     <<"A","c","c","e","p","t","e","d"," "," ">>,
     <<"x","-","y">>}
Gaps == {<<>>, <<" ">>}
Tickets == {<<"D","7">>, <<"D","4","2">>, <<"D">>, <<"d","7">>}
Colons == {<<":"," ">>, <<":">>}
Summaries == {<<"F","i","x"," ","b","u","g">>, <<" ","O","l","d"," ">>, <<>>, <<"D","9",":"," ","x">>}
Leads == {<<>>, <<" ", NL>>}
Trails == {<<>>, <<NL>>, <<" ", CR, NL>>}
Eols == {<<NL>>, <<CR, NL>>}

ArcRows ==
    {m \o l \o g \o t \o c \o s :
        m \in Markers, l \in Labels, g \in Gaps, t \in Tickets, c \in Colons, s \in Summaries}

TableRows == {RowNeedsReview42, RowClosed7, RowAccepted42, RowGarbage, <<>>, Sentinel}

ArcRichOutputs ==
    {SpawnFailed, ExitNonZero, Ran(<<InvalidByte>>)}
    \cup {Ran(a \o r \o b) : a \in Leads, r \in ArcRows \cup {Sentinel}, b \in Trails}
    \cup {Ran(join_lines(rs, e)) : rs \in SeqsUpTo(TableRows, MaxRows), e \in Eols}

NextArc == GetArcInfo(ArcRichOutputs)

SpecArc == Init /\ [][NextArc]_vars

(* ---------------------- the commit bodies, in depth -------------------- *)
PathAlphabet == {"D", "1", "a", "/", " "}
Paths == {<<>>} \cup {<<"/">> \o p : p \in SeqsUpTo(PathAlphabet, MaxPathLen)}
Prefixes ==
    {AnnotationPrefix,
     <<"D","i","f","f","e","r","e","n","t","i","a","l"," ","r","e","v","i","s","i","o","n",":">>,
     <<>>}
UrlHeads == {<<"h","t","t","p","s",":","/","/","h">>, <<"h","t","t","p","s",":">>, <<"h">>}
UrlTails == {<<>>, <<"?","q">>, <<" ">>}

BodyLines ==
    {a \o g \o h \o p \o t :
        a \in Prefixes, g \in Gaps, h \in UrlHeads, p \in Paths, t \in UrlTails}

SmallLines == {LineD7, LineD42, LineD, LinePlain}

RichLogOutputs ==
    {Ran(l \o <<NL>>) : l \in BodyLines}
    \cup {Ran(join_lines(b, e)) : b \in SeqsUpTo(SmallLines, MaxBodyLines), e \in Eols}

NextDiffs ==
    \/ GetArcInfo({Ran(join_lines(<<RowNeedsReview42, RowClosed7>>, <<NL>>))})
    \/ GetBranches({Ran(<<"m", NUL, NL>>)})
    \/ ResolveBranch({Ran(<<"a","1","f",NL>>)}, RichLogOutputs)
    \/ Finish

SpecDiffs == Init /\ [][NextDiffs]_vars

(* ------------------------------ properties ----------------------------- *)
\* A TicketId: the letter D followed by one or more ASCII digits.
IsTicketId(t) ==
    /\ Len(t) >= 2
    /\ t[1] = "D"
    /\ \A i \in 2..Len(t) : t[i] \in AsciiDigit

\* The ways a line reads as [marker] label ' ' D<digits> ': ' summary.
RowShapes(line) ==
    LET n == Len(line)
        cut(mk, p, q) ==
            [marker |-> mk,
             label |-> SubSeq(line, Len(mk) + 1, p),
             ticket |-> SubSeq(line, p + 2, q),
             summary |-> SubSeq(line, q + 3, n)]
        label_ends == {p \in 1..(n - 1) : line[p + 1] = " "}
        ticket_ends == {q \in 1..(n - 1) : line[q + 1] = ":"}
    IN {r \in {cut(mk, p, q) : mk \in {<<>>, <<"*"," ">>}, p \in label_ends, q \in ticket_ends} :
          /\ r.label # <<>>
          /\ Range(r.label) \subseteq WordChar \cup {" "}
          /\ IsTicketId(r.ticket)
          /\ line = r.marker \o r.label \o <<" ">> \o r.ticket \o <<":"," ">> \o r.summary}

Shaped(line) == RowShapes(line) # {}

TicketsOf(ls) == UNION {{r.ticket : r \in RowShapes(ls[i])} : i \in 1..Len(ls)}

LastRow(ls, t) ==
    CHOOSE i \in 1..Len(ls) :
        /\ t \in {r.ticket : r \in RowShapes(ls[i])}
        /\ \A h \in (i + 1)..Len(ls) : t \notin {r.ticket : r \in RowShapes(ls[h])}

InfoOf(r) ==
    [exists |-> r.marker # <<>>, status |-> trim(r.label), summary |-> trim(r.summary)]

AllWhitespace(s) == Range(s) \subseteq AsciiWhitespace

PaddedSentinel(s) ==
    \E a \in 0..Len(s) :
        /\ a + Len(Sentinel) <= Len(s)
        /\ AllWhitespace(Take(s, a))
        /\ SubSeq(s, a + 1, a + Len(Sentinel)) = Sentinel
        /\ AllWhitespace(Drop(s, a + Len(Sentinel)))

Listed == pc # "get_arc_info" /\ lines # <<>> /\ lines # <<Sentinel>>

Count(s, x) == Cardinality({i \in 1..Len(s) : s[i] = x})

PrintedNames == SelectSeq(out, LAMBDA tok : tok.t = "name")

\* C1: every identifier the Ticket Reference Parser yields is D followed by
\* one or more ASCII digits, so no element of a BranchDiffs sequence is the
\* bare string "D".
C1_TicketIdHasDigits ==
    \A i \in 1..Len(diffs) : IsTicketId(diffs[i])

\* C2: the resolved sequence is the reverse of the identifiers obtained by
\* applying the parser to each body line in log order and dropping the
\* non-matches; no match gives the empty sequence.
C2_ResolvedIsReversedMatches ==
    diffs = rev(filter_map(bodies))

C2_Witness ==
    /\ bodies = <<LinePlain, LineD42, LineD7>>
    /\ diffs = <<<<"D","7">>, <<"D","4","2">>>>

\* C3: the resolver does not deduplicate: every identifier occurs in the
\* resolved sequence as often as there are body lines yielding it, and the
\* length of the resolved sequence is the number of matching lines.
C3_NoDeduplication ==
    /\ \A i \in 1..Len(bodies) :
         LET t == get_differential_revision(bodies[i])
         IN t # None =>
              Count(diffs, t[1]) =
                Cardinality({h \in 1..Len(bodies) : get_differential_revision(bodies[h]) = t})
    /\ Len(diffs) = Cardinality({h \in 1..Len(bodies) : get_differential_revision(bodies[h]) # None})

C3_Witness ==
    /\ Len(bodies) = 3
    /\ bodies[1] = LineD7
    /\ bodies[3] = LineD7
    /\ diffs = <<<<"D","7">>, <<"D","7">>>>

C5_MalformedRowIsFatal ==
    (Listed /\ \E i \in 1..Len(lines) : ~Shaped(lines[i])) =>
        /\ pc = "failed"
        /\ failed_at = "get_arc_info"
        /\ err.kind = "TableParseError"
        /\ \E i \in 1..Len(lines) :
             /\ err.line = lines[i]
             /\ ~Shaped(lines[i])
             /\ \A h \in 1..(i - 1) : Shaped(lines[h])
        /\ arc_info = EmptyMap

C5_Witness ==
    /\ pc = "failed"
    /\ Len(lines) = 3
    /\ lines[1] = RowNeedsReview42
    /\ lines[2] = RowGarbage
    /\ lines[3] = RowClosed7
    /\ err = Error("TableParseError", RowGarbage)

\* C6: output that is the sentinel line surrounded only by whitespace gives
\* the empty mapping and no error; a sentinel line that is not the whole
\* trimmed output is not recognised.
C6_SentinelIsEmptyMapping ==
    /\ (pc # "get_arc_info" /\ arc_output.spawned /\ arc_output.success
          /\ PaddedSentinel(arc_output.stdout)) =>
         /\ pc # "failed"
         /\ err = NoError
         /\ arc_info = EmptyMap
    /\ (pc # "get_arc_info" /\ Len(lines) > 1 /\ Sentinel \in Range(lines)) =>
         /\ pc = "failed"
         /\ err.kind = "TableParseError"

C6_Witness ==
    /\ pc = "get_branches"
    /\ arc_output = Ran(<<" ", NL>> \o Sentinel \o <<" ", CR, NL>>)
    /\ arc_info = EmptyMap

\* C7: an error ends the run: nothing is printed when the review listing or
\* the branch enumeration fails, and when resolving branch k fails exactly
\* the complete lines of branches 1..k-1 have been printed; no step follows
\* a failure.
C7_Printed ==
    pc = "failed" =>
       /\ failed_at \in {"get_arc_info", "get_branches"} => out = <<>>
       /\ failed_at = "get_branch_diffs" =>
            /\ Len(PrintedNames) = k - 1
            /\ \A i \in 1..(k - 1) : PrintedNames[i].text = branches[i].branch
            /\ Count([i \in 1..Len(out) |-> out[i].t], "newline") = k - 1
            /\ out # <<>> => out[Len(out)].t = "newline"

C7_ErrorsAreFatal == [](C7_Printed) /\ [][pc # "failed"]_vars

C7_Witness ==
    /\ pc = "failed"
    /\ failed_at = "get_branch_diffs"
    /\ k = 2
    /\ Len(branches) = 2
    /\ out # <<>>

\* C8: a resolved ticket with no entry in the status mapping is printed as
\* the identifier alone, one with an entry is followed by exactly that
\* entry's status, and a missing entry never fails the run.
C8_Join ==
    /\ \A i \in 1..Len(out) :
         /\ out[i].t = "diff" =>
              /\ i < Len(out)
              /\ IF out[i].text \in DOMAIN arc_info
                 THEN /\ out[i + 1].t = "status"
                      /\ out[i + 1].text = arc_info[out[i].text].status
                 ELSE out[i + 1].t # "status"
         /\ out[i].t = "status" => (i > 1 /\ out[i - 1].t = "diff")
    /\ (pc \in {"loop", "done"} /\ k > 1) =>
         LET printed == SelectSeq(out, LAMBDA tok : tok.t \in {"name", "diff"})
         IN /\ Len(printed) > Len(diffs)
            /\ printed[Len(printed) - Len(diffs)].t = "name"
            /\ \A i \in 1..Len(diffs) : printed[Len(printed) - Len(diffs) + i].text = diffs[i]
    /\ (pc = "failed" /\ failed_at = "get_branch_diffs") => err.kind \in {"RepositoryError", "Utf8Error"}

C8_Witness ==
    /\ pc = "done"
    /\ arc_info # EmptyMap
    /\ \E i \in 1..Len(out) : out[i].t = "diff" /\ out[i].text \notin DOMAIN arc_info
    /\ \E i \in 1..Len(out) : out[i].t = "status"

\* C9: when a ticket is on several rows of a well-formed listing, the
\* mapping has one entry for it, holding the fields of the last such row;
\* the keys are the distinct tickets of the listing and no error is raised.
C9_LastWriteWins ==
    (Listed /\ \A i \in 1..Len(lines) : Shaped(lines[i])) =>
        /\ pc # "failed"
        /\ DOMAIN arc_info = TicketsOf(lines)
        /\ Cardinality(DOMAIN arc_info) = Cardinality(TicketsOf(lines))
        /\ \A t \in TicketsOf(lines) :
             arc_info[t] \in {InfoOf(r) : r \in RowShapes(lines[LastRow(lines, t)])}

C9_Witness ==
    /\ pc = "get_branches"
    /\ lines = <<RowNeedsReview42, RowClosed7, RowAccepted42>>
    /\ DOMAIN arc_info = {<<"D","7">>, <<"D","4","2">>}
    /\ arc_info[<<"D","4","2">>] =
         [exists |-> FALSE, status |-> <<"A","c","c","e","p","t","e","d">>, summary |-> <<"x">>]

EmptyLineBetweenRows ==
    /\ Listed
    /\ \A i \in 1..Len(lines) : lines[i] # <<>> => Shaped(lines[i])
    /\ \E i \in 2..(Len(lines) - 1) :
         lines[i] = <<>> /\ lines[i - 1] # <<>> /\ lines[i + 1] # <<>>

\* C10 as stated: an empty line between two well-formed rows causes no
\* TableParseError and the mapping of the well-formed rows is returned.
C10_EmptyLineTolerated ==
    EmptyLineBetweenRows =>
        /\ pc # "failed"
        /\ DOMAIN arc_info = TicketsOf(lines)

\* C10 as amended: empty lines must match the row pattern like any other
\* line, so an empty line between two well-formed rows fails the listing
\* with a TableParseError carrying the empty line, and no mapping is returned.
C10_EmptyLineRejected ==
    EmptyLineBetweenRows =>
        /\ pc = "failed"
        /\ failed_at = "get_arc_info"
        /\ err = Error("TableParseError", <<>>)
        /\ arc_info = EmptyMap

C10_Witness ==
    /\ pc = "failed"
    /\ lines = <<RowNeedsReview42, <<>>, RowClosed7>>
    /\ err = Error("TableParseError", <<>>)

====
